---- MODULE Spec2Model ----
(***************************************************************************)
(* MIDI::Parser of dhigdon/MIDIParser: a byte-at-a-time MIDI 1.0 decoder.  *)
(*                                                                         *)
(* src/MIDIparser.cpp holds two copies of the library source: the earlier  *)
(* one (lines 1-102) and the current one (lines 105-191).  They differ in  *)
(* the two parameter-count tables and in expected_bytes; reset and accept  *)
(* are the same statement for statement.  The variable "version" says      *)
(* which copy a behaviour runs: 1 is the earlier copy, 2 the current one.  *)
(***************************************************************************)
EXTENDS Integers, Sequences, FiniteSets

VARIABLES
    version,    \* 1: earlier copy of the library, 2: current copy
    mMessage,   \* uint8_t mMessage: the message being worked on
    mExpected,  \* int8_t mExpected: remaining parameter byte count
    mData,      \* uint8_t mData[2], as a sequence of two bytes (slot i is mData[i+1])
    trapped,    \* an out-of-range write to mData has happened (earlier copy only)
    prev,       \* the call before the last one: [in, ret] (in = NoByte: reset, or none yet)
    last,       \* the last call: [in, ret]
    start,      \* the last accept of a non-realtime message-start byte, if it is at most
                \* two calls back: [in, ret, age], age = calls made since
    comp,       \* the last call before the last one that returned a non-realtime message,
                \* if it is at most two calls back: [ret, age]
    cut,        \* the message-start call remembered in start arrived while an earlier
                \* message still had 1 or 2 data bytes pending
    run,        \* what the calls since the last one that was not a data byte amount to:
                \* "fresh" (construction or reset, then data bytes only), "sysex" (accept
                \* of 0xF0, then data bytes only), "other"
    wrIdx,      \* the set of mData indices the last call wrote (0-based, as in the code)
    shadow,     \* a second parser fed the same calls with the realtime bytes removed
    shRet,      \* what the shadow parser's last accept returned
    probe       \* the last direct call of expected_bytes: [msg, count]

vars == <<version, mMessage, mExpected, mData, trapped, prev, last, start, comp, cut, run, wrIdx, shadow, shRet, probe>>

----------------------------------------------------------------------------
(* Bytes and the inputs the model feeds *)

\* The data bytes fed are 0 .. MaxLowData and the top value 127.
MaxLowData == 0

\* The input recorded for a call that is not accept (construction, reset).
NoByte == 0 - 1

\* No call.
NoCall == [in |-> NoByte, ret |-> 0]

\* No remembered message-start call, no remembered completion.
NoStart == [in |-> NoByte, ret |-> 0, age |-> 0]
NoComp == [ret |-> 0, age |-> 0]

\* No direct call of expected_bytes.
NoProbe == [msg |-> NoByte, count |-> 0]

\* Data bytes fed: high bit clear.
DataBytes == (0 .. MaxLowData) \cup {127}

\* Channel numbers fed (low nibble of a channel message).
Channels == {0, 15}

\* Channel message-start bytes fed: opcode 0x8..0xE in the high nibble.
ChannelBytes == {op * 16 + ch : op \in 8 .. 14, ch \in Channels}

\* System-common message-start bytes, 0xF0..0xF7.
SystemCommonBytes == 240 .. 247

\* Realtime bytes, 0xF8..0xFF, and the ones fed.
RealtimeBytes == 248 .. 255
RealtimeFed == {248, 255}

\* Bytes with the high bit set, and with it clear.
MessageStartBytes == 128 .. 255
AllDataBytes == 0 .. 127

InputBytes == DataBytes \cup ChannelBytes \cup SystemCommonBytes \cup RealtimeFed

\* What a read behind the 7-entry midi_sysmsg_bytes of the earlier copy may yield
\* (an int8_t: negative, zero, a count mData can take, a count it cannot).
OobValues == {-1, 0, 1, 2, 3}

\* accept takes a char: the caller's byte 0..255 converted to a signed 8-bit char ...
ToChar(b) == IF b >= 128 THEN b - 256 ELSE b

\* ... and every use inside accept converts it back to uint8_t.
ToU8(c) == c % 256

----------------------------------------------------------------------------
(* MIDIparser.h: enum Message break points and the classifiers *)

SYSEX == 240
ENDEX == 247
RT_CLOCK == 248
SYS_MSGS == SYSEX
RT_MSGS == RT_CLOCK

\* Mutant: ENDEX not taken for a message-start byte.
is_msg_not_endex(msg) == (msg \div 128) % 2 = 1 /\ msg # ENDEX

\* (msg & 0x80) == 0x80
is_msg(msg) == (msg \div 128) % 2 = 1

\* (msg & 0xf8) == 0xf0
is_sysmsg(msg) == (msg \div 8) * 8 = 240

\* Mutant: mask 0xfc, so that 0xF8..0xFB are not taken for realtime bytes.
is_rtmsg_fc(msg) == (msg \div 4) * 4 = 252

\* (msg & 0xf8) == 0xf8
is_rtmsg(msg) == (msg \div 8) * 8 = 248

----------------------------------------------------------------------------
(* MIDIparser.cpp: the parameter-count tables (index i of the code is i+1) *)

\* Mutant: a channel entry of 3, one more than mData holds.
midi_msg_bytes_three == <<2, 2, 3, 2, 1, 1, 2>>

midi_msg_bytes == <<2, 2, 2, 2, 1, 1, 2>>

\* Mutant: SYSEX counted as a zero-parameter message instead of -1.
midi_sysmsg_bytes_sysex0 == <<0, 1, 2, 1, 0, 0, 0, 0>>

midi_sysmsg_bytes == <<-1, 1, 2, 1, 0, 0, 0, 0>>

midi_msg_bytes_earlier == <<2, 2, 2, 2, 1, 2, 2>>

midi_sysmsg_bytes_earlier == <<-1, 1, 2, 1, 0, 0, 0>>

\* table[idx] of the code; a read outside the array yields what lies there (o).
TableAt(table, idx, o) == IF idx + 1 \in DOMAIN table THEN table[idx + 1] ELSE o

\* Whether expected_bytes(msg) of copy v indexes inside its table.
LookupInRange(v, msg) ==
    IF msg < SYS_MSGS
    THEN ((msg \div 16) % 8) + 1 \in DOMAIN (IF v = 1 THEN midi_msg_bytes_earlier ELSE midi_msg_bytes)
    ELSE IF v = 1
         THEN msg >= RT_MSGS \/ (msg % 8) + 1 \in DOMAIN midi_sysmsg_bytes_earlier
         ELSE (msg % 8) + 1 \in DOMAIN midi_sysmsg_bytes

\* expected_bytes of the current copy.
expected_bytes_current(o, msg) ==
    IF msg < SYS_MSGS
    THEN TableAt(midi_msg_bytes, (msg \div 16) % 8, o)
    ELSE TableAt(midi_sysmsg_bytes, msg % 8, o)

\* expected_bytes of the earlier copy.
expected_bytes_earlier(o, msg) ==
    IF msg < SYS_MSGS
    THEN TableAt(midi_msg_bytes_earlier, (msg \div 16) % 8, o)
    ELSE IF msg < RT_MSGS
         THEN TableAt(midi_sysmsg_bytes_earlier, msg % 8, o)
         ELSE 0

expected_bytes(v, o, msg) ==
    IF v = 1 THEN expected_bytes_earlier(o, msg) ELSE expected_bytes_current(o, msg)

----------------------------------------------------------------------------
(* MIDI::Parser *)

\* Mutant: reset() that leaves mData as it is.
reset_keeps_data(p) == [msg |-> 0, exp |-> 0, data |-> p.data]

\* reset() on parser fields p.
reset(p) == [msg |-> 0, exp |-> 0, data |-> <<0, 0>>]

\* What the fields may hold when the constructor runs, before its reset().
Uninitialized ==
    {[msg |-> 0, exp |-> 0, data |-> <<0, 0>>], [msg |-> 255, exp |-> 0 - 128, data |-> <<255, 127>>]}

\* Mutant: a realtime byte recorded as the message being worked on.
accept_rt_records(p, b) == [p |-> [p EXCEPT !.msg = b], ret |-> b, wr |-> {}]

\* Mutant: a realtime byte that drops the pending count of the message in progress.
accept_rt_trash(p, b) == [p |-> [p EXCEPT !.exp = 0], ret |-> b, wr |-> {}]

\* accept, realtime branch: return the byte, touch nothing.
accept_rt(p, b) == [p |-> p, ret |-> b, wr |-> {}]

\* Mutant: a message-start byte that clears the stored data bytes.
accept_msg_clears_data(v, o, p, b) ==
    [msg |-> b, exp |-> expected_bytes(v, o, b), data |-> <<0, 0>>]

\* Mutant: a message-start byte that keeps the pending count of a message in progress.
accept_msg_keeps_count(v, o, p, b) ==
    [msg |-> b, exp |-> IF p.exp > 0 THEN p.exp ELSE expected_bytes(v, o, b), data |-> p.data]

\* accept, message-start branch: remember the message and its parameter count.
accept_msg(v, o, p, b) == [msg |-> b, exp |-> expected_bytes(v, o, b), data |-> p.data]

\* Mutant: mData[mExpected - 1] = midiByte, the two slots swapped.
store_data_swapped(data, exp, b) ==
    IF exp - 1 \in {0, 1} THEN [data EXCEPT ![(exp - 1) + 1] = b] ELSE data

\* Mutant: a store that also overwrites the other slot.
store_data_fill(data, exp, b) ==
    IF 2 - exp \in {0, 1} THEN [i \in 1 .. 2 |-> b] ELSE data

\* mData[2 - mExpected] = midiByte (a write outside the array leaves mData alone here;
\* the action then marks the behaviour trapped).
store_data(data, exp, b) ==
    IF 2 - exp \in {0, 1} THEN [data EXCEPT ![(2 - exp) + 1] = b] ELSE data

\* accept, data branch with mExpected > 0: store the byte, --mExpected.
accept_data(p, b) == [msg |-> p.msg, exp |-> p.exp - 1, data |-> store_data(p.data, p.exp, b)]

\* Mutant: completion that does not re-arm mExpected.
accept_complete_no_rearm(v, o, q) == [p |-> q, ret |-> q.msg]

\* Mutant: completion that returns the last stored data byte instead of mMessage.
accept_complete_returns_data(v, o, q) ==
    [p |-> [q EXCEPT !.exp = expected_bytes(v, o, q.msg)], ret |-> q.data[2]]

\* Mutant: completion that re-arms mExpected with 2 whatever the message.
accept_complete_rearm_two(v, o, q) == [p |-> [q EXCEPT !.exp = 2], ret |-> q.msg]

\* Mutant: completion that re-arms mExpected for channel messages only.
accept_complete_channel_only(v, o, q) ==
    [p |-> IF q.msg < SYS_MSGS THEN [q EXCEPT !.exp = expected_bytes(v, o, q.msg)] ELSE q,
     ret |-> q.msg]

\* accept, completion: re-arm mExpected for running status and return mMessage.
accept_complete(v, o, q) ==
    [p |-> [q EXCEPT !.exp = expected_bytes(v, o, q.msg)], ret |-> q.msg]

\* uint8_t accept(char midiByte) on parser fields p, for copy v of the library.
accept(v, o, p, midiByte) ==
    LET b == ToU8(midiByte) IN
    IF is_rtmsg(b)
    THEN accept_rt(p, b)
    ELSE LET q == IF is_msg(b) THEN accept_msg(v, o, p, b)
                  ELSE IF p.exp > 0 THEN accept_data(p, b)
                  ELSE p
             wr == IF ~is_msg(b) /\ p.exp > 0 THEN {2 - p.exp} ELSE {}
         IN IF is_msg(b) /\ q.exp < 0
            THEN [p |-> q, ret |-> q.msg, wr |-> wr]
            ELSE IF q.exp = 0
                 THEN LET c == accept_complete(v, o, q)
                      IN [p |-> c.p, ret |-> c.ret, wr |-> wr]
                 ELSE [p |-> q, ret |-> 0, wr |-> wr]

\* The values the table lookups of accept(b) may read in copy v with fields p: the
\* table's own entry (o is then unused), or anything when the index is outside it.
OobChoices(v, p, b) ==
    IF ~is_rtmsg(b) /\ ~LookupInRange(v, IF is_msg(b) THEN b ELSE p.msg)
    THEN OobValues
    ELSE {0}

\* The messages whose count accept(b) looks up with fields p: the new message on a
\* message-start byte, mMessage when a data byte leaves mExpected at 0, none on a
\* realtime byte.
LookupsOf(p, b) ==
    IF is_rtmsg(b) THEN {}
    ELSE IF is_msg(b) THEN {b}
    ELSE IF (IF p.exp > 0 THEN p.exp - 1 ELSE p.exp) = 0 THEN {p.msg}
    ELSE {}

\* The indexes of mData that accept(b) writes with fields p.
WritesOf(p, b) == IF ~is_rtmsg(b) /\ ~is_msg(b) /\ p.exp > 0 THEN {2 - p.exp} ELSE {}

\* The values the fields can hold: uint8_t, the counts of the tables, uint8_t[2].
WellTyped(p) ==
    /\ p.msg \in 0 .. 255
    /\ p.exp \in {0 - 1, 0, 1, 2}
    /\ p.data \in [1 .. 2 -> 0 .. 255]

\* The accessors.
get_message == mMessage
get_dataA == mData[1]
get_dataB == mData[2]

\* Bitwise OR of two naturals over their low w bits.
RECURSIVE BitOr(_, _, _)
BitOr(a, b, w) ==
    IF w = 0 THEN 0
    ELSE (IF a % 2 = 1 \/ b % 2 = 1 THEN 1 ELSE 0) + 2 * BitOr(a \div 2, b \div 2, w - 1)

\* Conversion of an int to the uint16_t that get_int14 returns.
ToU16(n) == n % 65536

\* Mutant: the 14-bit value with the first data byte as the high group.
get_int14_msb_first == ToU16(BitOr(mData[1] * 128, mData[2], 16))

\* get_int14: ((uint16_t)mData[1] << 7) | (uint16_t)mData[0].
get_int14 == ToU16(BitOr(mData[2] * 128, mData[1], 16))

\* The parser's fields as one record.
parser == [msg |-> mMessage, exp |-> mExpected, data |-> mData]

\* start after one more call (b, r): a non-realtime message-start byte is remembered
\* anew, anything else ages the remembered one, which is forgotten after two calls.
StartAfter(st, b, r) ==
    IF b \in MessageStartBytes \ RealtimeBytes
    THEN [in |-> b, ret |-> r, age |-> 0]
    ELSE IF st = NoStart \/ st.age >= 2 THEN NoStart
         ELSE [st EXCEPT !.age = st.age + 1]

\* comp after one more call, l being the call that was the last one until now.
CompAfter(c, l) ==
    IF l.in # NoByte /\ l.in \notin RealtimeBytes /\ l.ret # 0
    THEN [ret |-> l.ret, age |-> 1]
    ELSE IF c = NoComp \/ c.age >= 2 THEN NoComp
         ELSE [c EXCEPT !.age = c.age + 1]

\* cut after one more call (b; NoByte for reset) made with fields p, st being start
\* after that call.
CutAfter(c, st, p, b) ==
    IF b \in MessageStartBytes \ RealtimeBytes
    THEN p.msg \in MessageStartBytes /\ p.exp \in {1, 2}
    ELSE IF st = NoStart THEN FALSE ELSE c

\* run after accept(b).
RunAfter(rn, b) ==
    IF b \in AllDataBytes THEN rn
    ELSE IF b = SYSEX THEN "sysex"
    ELSE "other"

----------------------------------------------------------------------------
(* The state machine *)

\* explicit Parser() { reset(); }
Constructed ==
    /\ \E g \in Uninitialized :
        /\ mMessage = reset(g).msg
        /\ mExpected = reset(g).exp
        /\ mData = reset(g).data
        /\ shadow = reset(g)
    /\ trapped = FALSE
    /\ prev = NoCall
    /\ last = NoCall
    /\ start = NoStart
    /\ comp = NoComp
    /\ cut = FALSE
    /\ run = "fresh"
    /\ wrIdx = {}
    /\ shRet = 0
    /\ probe = NoProbe

\* The current copy of the library.
Init ==
    /\ version = 2
    /\ Constructed

\* Either copy.
InitBoth ==
    /\ version \in {1, 2}
    /\ Constructed

\* parser.accept(b)
Accept ==
    \E b \in InputBytes :
      \E o \in OobChoices(version, parser, b) :
        \E a \in {accept(version, o, parser, ToChar(b))} :
            /\ ~trapped
            /\ mMessage' = a.p.msg
            /\ mExpected' = a.p.exp
            /\ mData' = a.p.data
            /\ trapped' = (\E i \in a.wr : i \notin {0, 1})
            /\ prev' = last
            /\ last' = [in |-> b, ret |-> a.ret]
            /\ start' = StartAfter(start, b, a.ret)
            /\ comp' = CompAfter(comp, last)
            /\ cut' = CutAfter(cut, StartAfter(start, b, a.ret), parser, b)
            /\ run' = RunAfter(run, b)
            /\ wrIdx' = a.wr
            /\ IF b \in RealtimeBytes
               THEN UNCHANGED <<shadow, shRet>>
               ELSE \E s \in {accept(version, o, shadow, ToChar(b))} :
                        shadow' = s.p /\ shRet' = s.ret
            /\ UNCHANGED <<version, probe>>

\* parser.reset()
Reset ==
    /\ ~trapped
    /\ mMessage' = reset(parser).msg
    /\ mExpected' = reset(parser).exp
    /\ mData' = reset(parser).data
    /\ prev' = last
    /\ last' = NoCall
    /\ start' = StartAfter(start, NoByte, 0)
    /\ comp' = CompAfter(comp, last)
    /\ cut' = CutAfter(cut, StartAfter(start, NoByte, 0), parser, NoByte)
    /\ run' = "fresh"
    /\ wrIdx' = {}
    /\ shadow' = reset(shadow)
    /\ shRet' = 0
    /\ UNCHANGED <<version, trapped, probe>>

\* expected_bytes(msg) called on its own, for every byte its comment allows: a
\* message byte that is not a realtime message.
Lookup ==
    \E msg \in MessageStartBytes \ RealtimeBytes :
      \E o \in (IF LookupInRange(version, msg) THEN {0} ELSE OobValues) :
        /\ probe' = [msg |-> msg, count |-> expected_bytes(version, o, msg)]
        /\ UNCHANGED <<version, mMessage, mExpected, mData, trapped, prev, last, start,
                       comp, cut, run, wrIdx, shadow, shRet>>

Next == Accept \/ Reset

Spec == Init /\ [][Next]_vars

SpecBoth == InitBoth /\ [][Next]_vars

\* expected_bytes alone, of either copy, over all its arguments.
SpecLookup == InitBoth /\ [][Lookup]_vars

----------------------------------------------------------------------------
(* The message types and their parameter counts, as MIDI 1.0 gives them *)

\* Note-off, note-on, aftertouch, control-change, pitch-bend: two parameters.
TwoParamStatus == {b \in ChannelBytes : b \div 16 \in {8, 9, 10, 11, 14}}

\* Program-change (0xC0..0xCF) and channel-pressure (0xD0..0xDF): one parameter.
OneParamStatus == {b \in ChannelBytes : b \div 16 \in {12, 13}}

\* Every 1-parameter message: those and MTC quarter-frame 0xF1, song-select 0xF3.
OneParamMessages == OneParamStatus \cup {241, 243}

\* The parameter counts of the message-start bytes 0x80..0xF7: 2 for 0x80-0xBF and
\* 0xE0-0xEF, 1 for 0xC0-0xDF, -1 for 0xF0, 1 for 0xF1, 2 for 0xF2, 1 for 0xF3, 0 for
\* 0xF4..0xF7.
StatedCount(b) ==
    IF b \in 128 .. 191 \cup 224 .. 239 THEN 2
    ELSE IF b \in 192 .. 223 THEN 1
    ELSE IF b = 240 THEN 0 - 1
    ELSE IF b \in {241, 243} THEN 1
    ELSE IF b = 242 THEN 2
    ELSE 0

\* The fields of a freshly constructed parser.
FreshFields == [msg |-> 0, exp |-> 0, data |-> <<0, 0>>]

----------------------------------------------------------------------------
(* C1 *)

\* C1: for every 2-parameter channel status byte S and data bytes a, b, from any
\* state: accept(S) returns 0, accept(a) returns 0, accept(b) returns S, and then
\* get_message() = S, get_dataA() = a, get_dataB() = b.
C1_TwoParamMessage ==
    \A S \in TwoParamStatus :
        start.in = S =>
            /\ start.ret = 0
            /\ (start.age = 1 /\ last.in \in AllDataBytes) => last.ret = 0
            /\ (start.age = 2 /\ prev.in \in AllDataBytes /\ last.in \in AllDataBytes) =>
                   /\ prev.ret = 0
                   /\ last.ret = S
                   /\ get_message = S
                   /\ get_dataA = prev.in
                   /\ get_dataB = last.in

\* Pitch bend on channel 15 completed by the bytes 127, 0.
C1_Witness ==
    /\ start = [in |-> 239, ret |-> 0, age |-> 2]
    /\ prev = [in |-> 127, ret |-> 0]
    /\ last = [in |-> 0, ret |-> 239]
    /\ mMessage = 239
    /\ mData = <<127, 0>>

----------------------------------------------------------------------------
(* C2 *)

\* C2: for every program-change or channel-pressure status byte S and data byte d,
\* from any state: accept(S) returns 0 and the very next accept(d) returns S.
C2_OneParamMessage ==
    \A S \in OneParamStatus :
        start.in = S =>
            /\ start.ret = 0
            /\ (start.age = 1 /\ last.in \in AllDataBytes) => last.ret = S

\* C2 for the current copy of the library alone.
C2_CurrentCopy == version = 2 => C2_OneParamMessage

----------------------------------------------------------------------------
(* C3 *)

\* C3: running status: once accept has returned a completed channel message S with N
\* parameters, the next N data bytes (no message-start byte between) make accept
\* return 0 for the first N-1 and S for the N-th, with the accessors holding those
\* bytes; every completion is again such a return of S, so this holds run after run.
C3_RunningStatus ==
    /\ \A S \in OneParamStatus :
           (comp = [ret |-> S, age |-> 1] /\ last.in \in AllDataBytes) =>
               /\ last.ret = S
               /\ get_message = S
               /\ get_dataB = last.in
    /\ \A S \in TwoParamStatus :
           /\ (comp = [ret |-> S, age |-> 1] /\ last.in \in AllDataBytes) => last.ret = 0
           /\ (comp = [ret |-> S, age |-> 2] /\ prev.in \in AllDataBytes
                                            /\ last.in \in AllDataBytes) =>
                  /\ prev.ret = 0
                  /\ last.ret = S
                  /\ get_message = S
                  /\ get_dataA = prev.in
                  /\ get_dataB = last.in

\* A run 127, 0 completing note-on (channel 15) again, the completion before it being
\* itself the end of a data byte run: none of the last three calls fed a start byte.
C3_Witness ==
    /\ comp = [ret |-> 159, age |-> 2]
    /\ start = NoStart
    /\ prev = [in |-> 127, ret |-> 0]
    /\ last = [in |-> 0, ret |-> 159]
    /\ mData = <<127, 0>>

----------------------------------------------------------------------------
(* C4 *)

\* C4: in every state, accept(r) of a realtime byte r returns r and leaves mMessage,
\* mExpected and both mData slots unchanged.
C4_RealtimeLeavesState ==
    [][\A r \in RealtimeBytes :
          last'.in = r => (last'.ret = r /\ UNCHANGED <<mMessage, mExpected, mData>>)]_vars

\* A realtime byte accepted between the two data bytes of a message.
C4_Witness ==
    /\ last = [in |-> 248, ret |-> 248]
    /\ prev = [in |-> 127, ret |-> 0]
    /\ start.age = 2
    /\ mExpected = 1
    /\ mData[1] = 127

\* A realtime byte accepted in SYSEX hold, and one on an idle parser.
C4_WitnessHold == last.in \in RealtimeBytes /\ mExpected = 0 - 1 /\ mMessage = SYSEX
C4_WitnessIdle == last.in \in RealtimeBytes /\ mExpected = 0 /\ mMessage = 0

----------------------------------------------------------------------------
(* C5 *)

\* C5: realtime transparency: a parser fed the same calls without the realtime bytes
\* is always in the same state, every non-realtime call returns the same value on
\* both, and every realtime byte is returned by its own call.
C5_RealtimeTransparent ==
    /\ shadow = parser
    /\ last.in \in RealtimeBytes => last.ret = last.in
    /\ (last.in # NoByte /\ last.in \notin RealtimeBytes) => last.ret = shRet

\* A 2-parameter message whose two data bytes had a realtime byte between them.
C5_Witness ==
    /\ last.ret \in TwoParamStatus
    /\ last.in = 0
    /\ prev.in \in RealtimeBytes
    /\ comp = NoComp
    /\ mData = <<127, 0>>
    /\ shadow = parser
    /\ shRet = last.ret

----------------------------------------------------------------------------
(* C6 *)

\* C6: SYSEX passthrough: accept(0xF0) returns 0xF0 on that call, from any state;
\* after it every data byte returns 0 and leaves mMessage, mExpected and mData
\* unchanged, however many there are; accept(0xF7) then returns 0xF7 on that call.
C6_SysexPassthrough ==
    [][/\ last'.in = SYSEX => last'.ret = SYSEX
       /\ (run = "sysex" /\ last'.in \in AllDataBytes) =>
              (last'.ret = 0 /\ UNCHANGED <<mMessage, mExpected, mData>>)
       /\ (run = "sysex" /\ last'.in = ENDEX) => last'.ret = ENDEX]_vars

\* 0xF0, a body byte, 0xF7: the last three calls.
C6_Witness ==
    /\ comp = [ret |-> SYSEX, age |-> 2]
    /\ prev = [in |-> 127, ret |-> 0]
    /\ last = [in |-> ENDEX, ret |-> ENDEX]
    /\ start = [in |-> ENDEX, ret |-> ENDEX, age |-> 0]
    /\ run = "other"
    /\ mMessage = ENDEX
    /\ mData = <<0, 0>>

\* The body of a SYSEX: 0xF0 two calls back, a data byte discarded since.
C6_WitnessBody ==
    /\ run = "sysex"
    /\ start = [in |-> SYSEX, ret |-> SYSEX, age |-> 2]
    /\ last = [in |-> 127, ret |-> 0]

----------------------------------------------------------------------------
(* C7 *)

\* C7: a data byte accepted while mExpected is 0 or -1 is discarded: accept returns
\* 0 and mMessage, mExpected and mData are unchanged.
C7_StrayDataDiscarded ==
    [][(mExpected \in {0, 0 - 1} /\ last'.in \in AllDataBytes) =>
           (last'.ret = 0 /\ UNCHANGED <<mMessage, mExpected, mData>>)]_vars

\* C7, the return value alone: a data byte accepted while mExpected is 0 or -1
\* returns 0.
C7_StrayDataReturnsNone ==
    [][(mExpected \in {0, 0 - 1} /\ last'.in \in AllDataBytes) => last'.ret = 0]_vars

\* C7 in SYSEX hold alone (mExpected = -1).
C7_InHold ==
    [][(mExpected = 0 - 1 /\ last'.in \in AllDataBytes) =>
           (last'.ret = 0 /\ UNCHANGED <<mMessage, mExpected, mData>>)]_vars

----------------------------------------------------------------------------
(* C8 *)

\* C8: on a freshly constructed or reset parser, every data byte fed before any
\* message-start byte is discarded: accept returns 0, nothing is written to mData
\* and the fields stay those of the reset state, however long the run.
C8_FreshDataDiscarded ==
    (run = "fresh" /\ last.in \in AllDataBytes) =>
        (last.ret = 0 /\ wrIdx = {} /\ parser = FreshFields)

\* C8, the return value alone: every call of such a run returns 0.
C8_FreshDataReturnsNone ==
    (run = "fresh" /\ last.in \in AllDataBytes) => last.ret = 0

----------------------------------------------------------------------------
(* C9 *)

\* C9: after reset(), whatever was fed before, the fields are those of a freshly
\* constructed parser (mMessage = 0, mExpected = 0, mData = {0, 0}), also after
\* reset() twice; what is fed afterwards then behaves as on a fresh instance.
C9_ResetIsFresh ==
    last.in = NoByte => parser = FreshFields

\* reset() in the middle of a 2-parameter message, its first data byte stored.
C9_Witness ==
    /\ last = NoCall
    /\ prev = [in |-> 127, ret |-> 0]
    /\ start.age = 2
    /\ start.in \in TwoParamStatus
    /\ mData = <<0, 0>>

\* reset() twice over, after a message-start byte.
C9_WitnessTwice == last = NoCall /\ prev = NoCall /\ start.age = 2

----------------------------------------------------------------------------
(* C10 *)

\* C10: mExpected is always in {-1, 0, 1, 2}, every write to mData is at index 0
\* or 1 (the index being 2 - mExpected), and mData has two entries.
C10_CountAndIndexInRange ==
    /\ mExpected \in {0 - 1, 0, 1, 2}
    /\ wrIdx \subseteq {0, 1}
    /\ Len(mData) = 2
    /\ ~trapped

\* The second data byte of a 2-parameter message, written to slot 1.
C10_Witness ==
    /\ wrIdx = {1}
    /\ prev.in \in AllDataBytes
    /\ last.in = 127
    /\ last.ret \in TwoParamStatus
    /\ mExpected = 2
    /\ mData[2] = 127

----------------------------------------------------------------------------
(* C11 *)

\* C11: accept changes mMessage only for a non-realtime message-start byte
\* (0x80..0xF7), and then to that byte; accept of a data byte or of a realtime byte
\* leaves it unchanged; the one other operation that changes it is reset().
C11_MessageOnlyByStart ==
    [][/\ last'.in \in MessageStartBytes \ RealtimeBytes => mMessage' = last'.in
       /\ last'.in \in AllDataBytes \cup RealtimeBytes => mMessage' = mMessage
       /\ mMessage' # mMessage =>
              \/ last'.in \in MessageStartBytes \ RealtimeBytes
              \/ last' = NoCall /\ mMessage' = 0]_vars

\* A realtime byte and then a data byte accepted after note-on (channel 15), which
\* is still the message; and a reset() that cleared a message.
C11_Witness ==
    /\ start = [in |-> 159, ret |-> 0, age |-> 2]
    /\ prev.in \in RealtimeBytes
    /\ last = [in |-> 127, ret |-> 0]
    /\ mMessage = 159
C11_WitnessReset == last = NoCall /\ start.age = 1 /\ mMessage = 0

----------------------------------------------------------------------------
(* C12 *)

\* C12: expected_bytes gives every message-start byte 0x80..0xF7 the count of the
\* stated table (StatedCount), whatever the channel nibble of a channel message.
C12_LookupTable ==
    probe # NoProbe => probe.count = StatedCount(probe.msg)

\* C12 for the current copy of the library alone.
C12_CurrentCopy == version = 2 => C12_LookupTable

\* C12 as accept uses the lookup: after accept of a message-start byte the pending
\* count is the stated one (a count of 0 is re-armed to itself).
C12_CountAfterStart ==
    (version = 2 /\ start.age = 0 /\ start # NoStart) => mExpected = StatedCount(start.in)

----------------------------------------------------------------------------
(* C13 *)

\* C13: a non-realtime message-start byte S2 arriving while a message S1 still has 1
\* or 2 data bytes pending abandons S1: the parser tracks S2 from that call on, S1
\* is not returned for the partial sequence, and S2 completes after exactly its own
\* count of further data bytes (on the call itself for a count of 0 or -1), with its
\* own data bytes in the slots it writes.
C13_AbandonPartial ==
    cut =>
        LET S2 == start.in
            N == StatedCount(start.in)
        IN /\ start.ret = (IF N \in {0, 0 - 1} THEN S2 ELSE 0)
           /\ start.age = 0 => (mMessage = S2 /\ mExpected = N)
           /\ last.in # NoByte => last.ret \in {0, S2} \cup RealtimeBytes
           /\ (start.age = 2 /\ prev.in # NoByte) => prev.ret \in {0, S2} \cup RealtimeBytes
           /\ (N = 1 /\ start.age = 1 /\ last.in \in AllDataBytes) =>
                  (last.ret = S2 /\ get_message = S2 /\ get_dataB = last.in)
           /\ (N = 2 /\ start.age = 1 /\ last.in \in AllDataBytes) => last.ret = 0
           /\ (N = 2 /\ start.age = 2 /\ prev.in \in AllDataBytes /\ last.in \in AllDataBytes) =>
                  /\ prev.ret = 0
                  /\ last.ret = S2
                  /\ get_message = S2
                  /\ get_dataA = prev.in
                  /\ get_dataB = last.in

\* Program change (channel 15) cut into a 2-parameter message that had stored its
\* first data byte 127, and completed by the one byte 0.
C13_Witness ==
    /\ cut
    /\ start = [in |-> 207, ret |-> 0, age |-> 1]
    /\ last = [in |-> 0, ret |-> 207]
    /\ mData = <<127, 0>>

\* A 2-parameter message cut into another one, and a SYSEX cut into one.
C13_WitnessTwo ==
    /\ cut
    /\ start = [in |-> 128, ret |-> 0, age |-> 2]
    /\ prev = [in |-> 0, ret |-> 0]
    /\ last = [in |-> 127, ret |-> 128]
C13_WitnessSysex == cut /\ start = [in |-> SYSEX, ret |-> SYSEX, age |-> 0]

----------------------------------------------------------------------------
(* C14 *)

\* C14: get_int14() equals data[1] * 128 + data[0]; both stored data bytes are in
\* 0..127 in every reachable state, so get_int14() is in 0..16383; and after a
\* 2-parameter message [S, lsb, msb] completes, get_int14() = msb * 128 + lsb.
C14_Int14 ==
    /\ get_dataA \in AllDataBytes
    /\ get_dataB \in AllDataBytes
    /\ get_int14 = get_dataB * 128 + get_dataA
    /\ get_int14 \in 0 .. 16383
    /\ ( /\ start # NoStart
         /\ StatedCount(start.in) = 2
         /\ start.age = 2
         /\ prev.in \in AllDataBytes
         /\ last.in \in AllDataBytes
         /\ last.ret = start.in ) => get_int14 = last.in * 128 + prev.in

\* Song position pointer [0xF2, 0, 127] completed: the value is 127 * 128.
C14_Witness ==
    /\ start = [in |-> 242, ret |-> 0, age |-> 2]
    /\ prev = [in |-> 0, ret |-> 0]
    /\ last = [in |-> 127, ret |-> 242]
    /\ get_int14 = 16256

\* Pitch bend [0xE0, 127, 127] completed: the largest value.
C14_WitnessMax == start.in = 224 /\ start.age = 2 /\ last.ret = 224 /\ get_int14 = 16383

----------------------------------------------------------------------------
(* C15 *)

\* C15: in every reachable state accept has a defined transition for every input
\* byte 0..255: no table lookup outside the table (ENDEX 0xF7 and mMessage = 0
\* included), no write outside mData, a returned byte and well-typed fields after.
C15_Totality ==
    /\ ~trapped
    /\ WellTyped(parser)
    /\ \A b \in 0 .. 255 :
         /\ \A m \in LookupsOf(parser, b) : LookupInRange(version, m)
         /\ WritesOf(parser, b) \subseteq {0, 1}
         /\ \A o \in OobChoices(version, parser, b) :
              LET a == accept(version, o, parser, ToChar(b))
              IN WellTyped(a.p) /\ a.ret \in 0 .. 255

\* The same for the current copy alone.
C15_CurrentCopy == version = 2 => C15_Totality

----------------------------------------------------------------------------
(* C16 *)

\* C16: for every 1-parameter message S, accepting S leaves both slots alone, and
\* the data byte d accepted right after it completes [S, d] with d in slot 1
\* (get_dataB) while slot 0 (get_dataA) keeps the value it held before S.
C16_OneParamSlot ==
    [][/\ last'.in \in OneParamMessages => mData' = mData
       /\ (last.in \in OneParamMessages /\ last'.in \in AllDataBytes) =>
              /\ last'.ret = last.in
              /\ get_message' = last.in
              /\ get_dataB' = last'.in
              /\ get_dataA' = get_dataA]_vars

\* Song select [0xF3, 0] completed while slot 0 still holds an earlier 127.
C16_Witness ==
    /\ start = [in |-> 243, ret |-> 0, age |-> 1]
    /\ last = [in |-> 0, ret |-> 243]
    /\ get_dataA = 127
    /\ get_dataB = 0

----------------------------------------------------------------------------
(* C17 *)

\* The SYSEX hold: mMessage is SYSEX and mExpected is -1.
SysexHold == mMessage = SYSEX /\ mExpected = 0 - 1

\* C17: accept(0xF0) enters the hold; the hold persists across every data byte and
\* every realtime byte; a non-realtime message-start byte accepted in the hold
\* becomes mMessage with its own count; and the hold is left by nothing else
\* (reset() apart).
C17_SysexHold ==
    [][/\ last'.in = SYSEX => (SysexHold' /\ last'.ret = SYSEX)
       /\ (SysexHold /\ last'.in \in AllDataBytes \cup RealtimeBytes) => SysexHold'
       /\ (SysexHold /\ last'.in \in MessageStartBytes \ RealtimeBytes) =>
              (mMessage' = last'.in /\ mExpected' = StatedCount(last'.in))
       /\ (SysexHold /\ ~SysexHold') =>
              \/ last'.in \in (MessageStartBytes \ RealtimeBytes) \ {SYSEX}
              \/ last' = NoCall]_vars

\* Still in the hold after SYSEX, a data byte and a realtime byte.
C17_Witness ==
    /\ SysexHold
    /\ start = [in |-> SYSEX, ret |-> SYSEX, age |-> 2]
    /\ prev = [in |-> 127, ret |-> 0]
    /\ last = [in |-> 248, ret |-> 248]

\* The hold left by ENDEX, and by a note-on that then waits for its 2 bytes.
C17_WitnessEndex ==
    /\ prev = [in |-> SYSEX, ret |-> SYSEX]
    /\ last = [in |-> ENDEX, ret |-> ENDEX]
    /\ mMessage = ENDEX
    /\ mExpected = 0
C17_WitnessNoteOn ==
    /\ prev = [in |-> SYSEX, ret |-> SYSEX]
    /\ last = [in |-> 144, ret |-> 0]
    /\ mMessage = 144
    /\ mExpected = 2

----------------------------------------------------------------------------
(* C18 *)

\* The system-common messages with 1 parameter, and the one with 2.
OneParamSystem == {241, 243}
TwoParamSystem == {242}

\* C18: running status holds for system-common messages too: when accept returns a
\* completed 0xF1, 0xF2 or 0xF3, mExpected is again the message's count N, and the
\* next N data bytes (no message-start byte between) make accept return 0 for the
\* first N-1 and the same code for the N-th, with the accessors holding those bytes.
C18_SystemRunningStatus ==
    /\ (last.in \in AllDataBytes /\ last.ret \in OneParamSystem \cup TwoParamSystem) =>
           (mMessage = last.ret /\ mExpected = StatedCount(last.ret))
    /\ \A S \in OneParamSystem :
           (comp = [ret |-> S, age |-> 1] /\ last.in \in AllDataBytes) =>
               /\ last.ret = S
               /\ get_message = S
               /\ get_dataB = last.in
    /\ \A S \in TwoParamSystem :
           /\ (comp = [ret |-> S, age |-> 1] /\ last.in \in AllDataBytes) => last.ret = 0
           /\ (comp = [ret |-> S, age |-> 2] /\ prev.in \in AllDataBytes
                                            /\ last.in \in AllDataBytes) =>
                  /\ prev.ret = 0
                  /\ last.ret = S
                  /\ get_message = S
                  /\ get_dataA = prev.in
                  /\ get_dataB = last.in

\* A run 127, 0 completing song position pointer again, no start byte in the last
\* three calls.
C18_Witness ==
    /\ comp = [ret |-> 242, age |-> 2]
    /\ start = NoStart
    /\ prev = [in |-> 127, ret |-> 0]
    /\ last = [in |-> 0, ret |-> 242]
    /\ mExpected = 2

\* MTC quarter-frame completed by one data byte right after a completion of it.
C18_WitnessOne ==
    /\ comp = [ret |-> 241, age |-> 1]
    /\ start = NoStart
    /\ last = [in |-> 127, ret |-> 241]
    /\ mExpected = 1

----------------------------------------------------------------------------
(* C19 *)

\* C19: accept of a data byte while mExpected > 0 writes that byte to the single
\* slot 2 - mExpected and leaves the other slot; accept of any message-start byte
\* (SYSEX, ENDEX and the realtime bytes included) and accept of a data byte while
\* mExpected <= 0 leave both slots unchanged; so accept modifies mData in the first
\* case only (the one other writer is reset(), which zeroes both slots).
C19_DataOnlyByDataByte ==
    [][/\ (last'.in \in AllDataBytes /\ mExpected > 0) =>
              /\ mData' = [mData EXCEPT ![(2 - mExpected) + 1] = last'.in]
              /\ wrIdx' = {2 - mExpected}
       /\ last'.in \in MessageStartBytes => (mData' = mData /\ wrIdx' = {})
       /\ (last'.in \in AllDataBytes /\ mExpected <= 0) => (mData' = mData /\ wrIdx' = {})
       /\ mData' # mData =>
              \/ last'.in \in AllDataBytes /\ mExpected > 0
              \/ last' = NoCall /\ mData' = <<0, 0>>]_vars

\* The first data byte 0 of a 2-parameter message written to slot 0, slot 1 still
\* holding an earlier 127.
C19_Witness ==
    /\ wrIdx = {0}
    /\ last = [in |-> 0, ret |-> 0]
    /\ mExpected = 1
    /\ mData = <<0, 127>>

\* A data byte 0 passed over inside a SYSEX, both slots still holding 127.
C19_WitnessHold == SysexHold /\ last = [in |-> 0, ret |-> 0] /\ mData = <<127, 127>>

----------------------------------------------------------------------------
(* C20 *)

\* C20: after every accept call of a non-realtime byte that returns a completed
\* message, mExpected is the count of mMessage; hence in every reachable state
\* mExpected = 0 only in the reset state (mMessage = 0) or with mMessage one of the
\* zero-parameter messages 0xF4..0xF7, and mExpected = -1 only with mMessage = 0xF0.
C20_RearmInvariant ==
    /\ (last.in \in InputBytes \ RealtimeBytes /\ last.ret # 0) =>
           (mMessage = last.ret /\ mExpected = StatedCount(mMessage))
    /\ mExpected = 0 => (parser = FreshFields \/ mMessage \in 244 .. 247)
    /\ mExpected = 0 - 1 => mMessage = SYSEX

\* Channel pressure (channel 0) completed by its one data byte and re-armed with 1.
C20_Witness ==
    /\ last = [in |-> 127, ret |-> 208]
    /\ mMessage = 208
    /\ mExpected = 1

\* Tune request completed on its own byte: the count stays 0.
C20_WitnessZero == last = [in |-> 246, ret |-> 246] /\ mMessage = 246 /\ mExpected = 0

----------------------------------------------------------------------------
(* C21 *)

\* C21: every value accept returns is 0 or a message-start byte (high bit set), never
\* a data byte value; for a non-realtime input byte a nonzero return r is what
\* get_message() reports right after the call; for a realtime input byte the return
\* is that byte and get_message() still reports the interrupted message.
C21_ReturnValues ==
    [][last'.in # NoByte =>
           /\ last'.ret \in {0} \cup MessageStartBytes
           /\ last'.ret \notin AllDataBytes \ {0}
           /\ (last'.in \notin RealtimeBytes /\ last'.ret # 0) => get_message' = last'.ret
           /\ last'.in \in RealtimeBytes =>
                  (last'.ret = last'.in /\ get_message' = get_message)]_vars

\* Pitch bend interrupted after its first data byte by 0xFF: accept returned 0xFF and
\* get_message() still reports pitch bend, one byte pending.
C21_Witness ==
    /\ start = [in |-> 224, ret |-> 0, age |-> 2]
    /\ prev = [in |-> 0, ret |-> 0]
    /\ last = [in |-> 255, ret |-> 255]
    /\ get_message = 224
    /\ mExpected = 1

\* Control change (channel 0) returned on its second data byte.
C21_WitnessComplete ==
    /\ prev = [in |-> 0, ret |-> 0]
    /\ last = [in |-> 127, ret |-> 176]
    /\ get_message = 176

====
